---------------------------- MODULE Spec2Model ----------------------------
(***************************************************************************)
(* A model of the `bentoml comfyui` command group of bentoml-comfyui       *)
(* (src/src/bentoml_comfyui/cli.py): the workspace validator, the `pack`   *)
(* command and the `build` command.  One run of the model is one run of    *)
(* the command line: the command and its arguments are chosen, the body of *)
(* the command runs statement by statement, and the run ends in "done"     *)
(* (the command returned) or "raised" (an exception left the command).     *)
(*                                                                         *)
(* A Python str is a sequence of Unicode code points (naturals).  The      *)
(* texts of the source are written character by character and turned into *)
(* code points by Str.  rich.print, like every routine the module calls,  *)
(* returns or raises; what is recorded of a call that returned is its     *)
(* argument.                                                               *)
(***************************************************************************)
EXTENDS Naturals, Sequences, FiniteSets

VARIABLES
    fs,        \* the disk: the paths that exist, and those stat fails on
    pc,        \* the position of the command
    args,      \* the command and its parsed command-line arguments
    name,      \* the local `name` of pack (line 45 rebinds it)
    tag,       \* pack: what pack_model returned
    tmpl,      \* build: service_template
    tmp,       \* build: the temporary directory and its files
    bento,     \* build: what bentoml.build returned
    out,       \* the arguments of rich.print, in order
    calls,     \* the external routines invoked, in order, with their outcome
    err        \* the exception that left the command, NoError if none

vars == <<fs, pc, args, name, tag, tmpl, tmp, bento, out, calls, err>>

-----------------------------------------------------------------------------
(* Bounds of the model. *)

\* The longest --extra-python-packages sequence.
MaxExtras == 2

-----------------------------------------------------------------------------
(* Characters. *)

\* The printable ASCII characters, U+0020 to U+007E in order; a character
\* that cannot be written in a string here is written as its code point.
PrintableAscii ==
    << " ", "!", "\"", "#", "$", "%", "&", "'", "(", ")", "*", "+", ",",
       "-", ".", "/", "0", "1", "2", "3", "4", "5", "6", "7", "8", "9", ":",
       ";", "<", "=", ">", "?", "@", "A", "B", "C", "D", "E", "F", "G", "H",
       "I", "J", "K", "L", "M", "N", "O", "P", "Q", "R", "S", "T", "U", "V",
       "W", "X", "Y", "Z", "[", "\\", "]", "^", "_", "U+0060", "a", "b",
       "c", "d", "e", "f", "g", "h", "i", "j", "k", "l", "m", "n", "o", "p",
       "q", "r", "s", "t", "u", "v", "w", "x", "y", "z", "{", "|", "}", "~" >>

\* The code point of a character of the source text.
Ord(c) ==
    CASE c = "\t" -> 9
      [] c = "\n" -> 10
      [] c = "\f" -> 12
      [] c = "\r" -> 13
      [] c = "U+0060" -> 96
      [] c = "U+00AD" -> 173
      [] c = "U+2705" -> 9989
      [] c = "U+E000" -> 57344
      [] c = "U+1F4C2" -> 128194
      [] c = "U+10FFFF" -> 1114111
      [] OTHER -> 31 + (CHOOSE i \in 1..Len(PrintableAscii) : PrintableAscii[i] = c)

\* The str of a text written character by character.
RECURSIVE Str(_)
Str(s) ==
    IF s = << >> THEN << >>
    ELSE IF Len(s) = 1 THEN <<Ord(s[1])>>
    ELSE Str(SubSeq(s, 1, Len(s) \div 2)) \o Str(SubSeq(s, Len(s) \div 2 + 1, Len(s)))

\* The characters the code below tells apart.
Slash == Ord("/")
Dot == Ord(".")
Backslash == Ord("\\")
Quote == Ord("'")
DoubleQuote == Ord("\"")
Colon == Ord(":")
Newline == Ord("\n")
Tab == Ord("\t")
Return == Ord("\r")
OpenBrace == Ord("{")
CloseBrace == Ord("}")
Digit0 == Ord("0")
LetterA == Ord("a")
LetterN == Ord("n")
LetterR == Ord("r")
LetterT == Ord("t")
LetterU == Ord("u")
LetterX == Ord("x")
CapitalU == Ord("U")

\* The ranges of code points str.isprintable rejects (Unicode 14.0.0, the
\* database of CPython 3.11): the categories Cc, Cf, Cs, Co, Cn, Zl, Zp and
\* Zs without the space.
NonPrintableRanges ==
    { <<0, 31>>, <<127, 160>>, <<173, 173>>, <<888, 889>>, <<896, 899>>,
      <<907, 907>>, <<909, 909>>, <<930, 930>>, <<1328, 1328>>,
      <<1367, 1368>>, <<1419, 1420>>, <<1424, 1424>>, <<1480, 1487>>,
      <<1515, 1518>>, <<1525, 1541>>, <<1564, 1564>>, <<1757, 1757>>,
      <<1806, 1807>>, <<1867, 1868>>, <<1970, 1983>>, <<2043, 2044>>,
      <<2094, 2095>>, <<2111, 2111>>, <<2140, 2141>>, <<2143, 2143>>,
      <<2155, 2159>>, <<2191, 2199>>, <<2274, 2274>>, <<2436, 2436>>,
      <<2445, 2446>>, <<2449, 2450>>, <<2473, 2473>>, <<2481, 2481>>,
      <<2483, 2485>>, <<2490, 2491>>, <<2501, 2502>>, <<2505, 2506>>,
      <<2511, 2518>>, <<2520, 2523>>, <<2526, 2526>>, <<2532, 2533>>,
      <<2559, 2560>>, <<2564, 2564>>, <<2571, 2574>>, <<2577, 2578>>,
      <<2601, 2601>>, <<2609, 2609>>, <<2612, 2612>>, <<2615, 2615>>,
      <<2618, 2619>>, <<2621, 2621>>, <<2627, 2630>>, <<2633, 2634>>,
      <<2638, 2640>>, <<2642, 2648>>, <<2653, 2653>>, <<2655, 2661>>,
      <<2679, 2688>>, <<2692, 2692>>, <<2702, 2702>>, <<2706, 2706>>,
      <<2729, 2729>>, <<2737, 2737>>, <<2740, 2740>>, <<2746, 2747>>,
      <<2758, 2758>>, <<2762, 2762>>, <<2766, 2767>>, <<2769, 2783>>,
      <<2788, 2789>>, <<2802, 2808>>, <<2816, 2816>>, <<2820, 2820>>,
      <<2829, 2830>>, <<2833, 2834>>, <<2857, 2857>>, <<2865, 2865>>,
      <<2868, 2868>>, <<2874, 2875>>, <<2885, 2886>>, <<2889, 2890>>,
      <<2894, 2900>>, <<2904, 2907>>, <<2910, 2910>>, <<2916, 2917>>,
      <<2936, 2945>>, <<2948, 2948>>, <<2955, 2957>>, <<2961, 2961>>,
      <<2966, 2968>>, <<2971, 2971>>, <<2973, 2973>>, <<2976, 2978>>,
      <<2981, 2983>>, <<2987, 2989>>, <<3002, 3005>>, <<3011, 3013>>,
      <<3017, 3017>>, <<3022, 3023>>, <<3025, 3030>>, <<3032, 3045>>,
      <<3067, 3071>>, <<3085, 3085>>, <<3089, 3089>>, <<3113, 3113>>,
      <<3130, 3131>>, <<3141, 3141>>, <<3145, 3145>>, <<3150, 3156>>,
      <<3159, 3159>>, <<3163, 3164>>, <<3166, 3167>>, <<3172, 3173>>,
      <<3184, 3190>>, <<3213, 3213>>, <<3217, 3217>>, <<3241, 3241>>,
      <<3252, 3252>>, <<3258, 3259>>, <<3269, 3269>>, <<3273, 3273>>,
      <<3278, 3284>>, <<3287, 3292>>, <<3295, 3295>>, <<3300, 3301>>,
      <<3312, 3312>>, <<3315, 3327>>, <<3341, 3341>>, <<3345, 3345>>,
      <<3397, 3397>>, <<3401, 3401>>, <<3408, 3411>>, <<3428, 3429>>,
      <<3456, 3456>>, <<3460, 3460>>, <<3479, 3481>>, <<3506, 3506>>,
      <<3516, 3516>>, <<3518, 3519>>, <<3527, 3529>>, <<3531, 3534>>,
      <<3541, 3541>>, <<3543, 3543>>, <<3552, 3557>>, <<3568, 3569>>,
      <<3573, 3584>>, <<3643, 3646>>, <<3676, 3712>>, <<3715, 3715>>,
      <<3717, 3717>>, <<3723, 3723>>, <<3748, 3748>>, <<3750, 3750>>,
      <<3774, 3775>>, <<3781, 3781>>, <<3783, 3783>>, <<3790, 3791>>,
      <<3802, 3803>>, <<3808, 3839>>, <<3912, 3912>>, <<3949, 3952>>,
      <<3992, 3992>>, <<4029, 4029>>, <<4045, 4045>>, <<4059, 4095>>,
      <<4294, 4294>>, <<4296, 4300>>, <<4302, 4303>>, <<4681, 4681>>,
      <<4686, 4687>>, <<4695, 4695>>, <<4697, 4697>>, <<4702, 4703>>,
      <<4745, 4745>>, <<4750, 4751>>, <<4785, 4785>>, <<4790, 4791>>,
      <<4799, 4799>>, <<4801, 4801>>, <<4806, 4807>>, <<4823, 4823>>,
      <<4881, 4881>>, <<4886, 4887>>, <<4955, 4956>>, <<4989, 4991>>,
      <<5018, 5023>>, <<5110, 5111>>, <<5118, 5119>>, <<5760, 5760>>,
      <<5789, 5791>>, <<5881, 5887>>, <<5910, 5918>>, <<5943, 5951>>,
      <<5972, 5983>>, <<5997, 5997>>, <<6001, 6001>>, <<6004, 6015>>,
      <<6110, 6111>>, <<6122, 6127>>, <<6138, 6143>>, <<6158, 6158>>,
      <<6170, 6175>>, <<6265, 6271>>, <<6315, 6319>>, <<6390, 6399>>,
      <<6431, 6431>>, <<6444, 6447>>, <<6460, 6463>>, <<6465, 6467>>,
      <<6510, 6511>>, <<6517, 6527>>, <<6572, 6575>>, <<6602, 6607>>,
      <<6619, 6621>>, <<6684, 6685>>, <<6751, 6751>>, <<6781, 6782>>,
      <<6794, 6799>>, <<6810, 6815>>, <<6830, 6831>>, <<6863, 6911>>,
      <<6989, 6991>>, <<7039, 7039>>, <<7156, 7163>>, <<7224, 7226>>,
      <<7242, 7244>>, <<7305, 7311>>, <<7355, 7356>>, <<7368, 7375>>,
      <<7419, 7423>>, <<7958, 7959>>, <<7966, 7967>>, <<8006, 8007>>,
      <<8014, 8015>>, <<8024, 8024>>, <<8026, 8026>>, <<8028, 8028>>,
      <<8030, 8030>>, <<8062, 8063>>, <<8117, 8117>>, <<8133, 8133>>,
      <<8148, 8149>>, <<8156, 8156>>, <<8176, 8177>>, <<8181, 8181>>,
      <<8191, 8207>>, <<8232, 8239>>, <<8287, 8303>>, <<8306, 8307>>,
      <<8335, 8335>>, <<8349, 8351>>, <<8385, 8399>>, <<8433, 8447>>,
      <<8588, 8591>>, <<9255, 9279>>, <<9291, 9311>>, <<11124, 11125>>,
      <<11158, 11158>>, <<11508, 11512>>, <<11558, 11558>>,
      <<11560, 11564>>, <<11566, 11567>>, <<11624, 11630>>,
      <<11633, 11646>>, <<11671, 11679>>, <<11687, 11687>>,
      <<11695, 11695>>, <<11703, 11703>>, <<11711, 11711>>,
      <<11719, 11719>>, <<11727, 11727>>, <<11735, 11735>>,
      <<11743, 11743>>, <<11870, 11903>>, <<11930, 11930>>,
      <<12020, 12031>>, <<12246, 12271>>, <<12284, 12288>>,
      <<12352, 12352>>, <<12439, 12440>>, <<12544, 12548>>,
      <<12592, 12592>>, <<12687, 12687>>, <<12772, 12783>>,
      <<12831, 12831>>, <<42125, 42127>>, <<42183, 42191>>,
      <<42540, 42559>>, <<42744, 42751>>, <<42955, 42959>>,
      <<42962, 42962>>, <<42964, 42964>>, <<42970, 42993>>,
      <<43053, 43055>>, <<43066, 43071>>, <<43128, 43135>>,
      <<43206, 43213>>, <<43226, 43231>>, <<43348, 43358>>,
      <<43389, 43391>>, <<43470, 43470>>, <<43482, 43485>>,
      <<43519, 43519>>, <<43575, 43583>>, <<43598, 43599>>,
      <<43610, 43611>>, <<43715, 43738>>, <<43767, 43776>>,
      <<43783, 43784>>, <<43791, 43792>>, <<43799, 43807>>,
      <<43815, 43815>>, <<43823, 43823>>, <<43884, 43887>>,
      <<44014, 44015>>, <<44026, 44031>>, <<55204, 55215>>,
      <<55239, 55242>>, <<55292, 63743>>, <<64110, 64111>>,
      <<64218, 64255>>, <<64263, 64274>>, <<64280, 64284>>,
      <<64311, 64311>>, <<64317, 64317>>, <<64319, 64319>>,
      <<64322, 64322>>, <<64325, 64325>>, <<64451, 64466>>,
      <<64912, 64913>>, <<64968, 64974>>, <<64976, 65007>>,
      <<65050, 65055>>, <<65107, 65107>>, <<65127, 65127>>,
      <<65132, 65135>>, <<65141, 65141>>, <<65277, 65280>>,
      <<65471, 65473>>, <<65480, 65481>>, <<65488, 65489>>,
      <<65496, 65497>>, <<65501, 65503>>, <<65511, 65511>>,
      <<65519, 65531>>, <<65534, 65535>>, <<65548, 65548>>,
      <<65575, 65575>>, <<65595, 65595>>, <<65598, 65598>>,
      <<65614, 65615>>, <<65630, 65663>>, <<65787, 65791>>,
      <<65795, 65798>>, <<65844, 65846>>, <<65935, 65935>>,
      <<65949, 65951>>, <<65953, 65999>>, <<66046, 66175>>,
      <<66205, 66207>>, <<66257, 66271>>, <<66300, 66303>>,
      <<66340, 66348>>, <<66379, 66383>>, <<66427, 66431>>,
      <<66462, 66462>>, <<66500, 66503>>, <<66518, 66559>>,
      <<66718, 66719>>, <<66730, 66735>>, <<66772, 66775>>,
      <<66812, 66815>>, <<66856, 66863>>, <<66916, 66926>>,
      <<66939, 66939>>, <<66955, 66955>>, <<66963, 66963>>,
      <<66966, 66966>>, <<66978, 66978>>, <<66994, 66994>>,
      <<67002, 67002>>, <<67005, 67071>>, <<67383, 67391>>,
      <<67414, 67423>>, <<67432, 67455>>, <<67462, 67462>>,
      <<67505, 67505>>, <<67515, 67583>>, <<67590, 67591>>,
      <<67593, 67593>>, <<67638, 67638>>, <<67641, 67643>>,
      <<67645, 67646>>, <<67670, 67670>>, <<67743, 67750>>,
      <<67760, 67807>>, <<67827, 67827>>, <<67830, 67834>>,
      <<67868, 67870>>, <<67898, 67902>>, <<67904, 67967>>,
      <<68024, 68027>>, <<68048, 68049>>, <<68100, 68100>>,
      <<68103, 68107>>, <<68116, 68116>>, <<68120, 68120>>,
      <<68150, 68151>>, <<68155, 68158>>, <<68169, 68175>>,
      <<68185, 68191>>, <<68256, 68287>>, <<68327, 68330>>,
      <<68343, 68351>>, <<68406, 68408>>, <<68438, 68439>>,
      <<68467, 68471>>, <<68498, 68504>>, <<68509, 68520>>,
      <<68528, 68607>>, <<68681, 68735>>, <<68787, 68799>>,
      <<68851, 68857>>, <<68904, 68911>>, <<68922, 69215>>,
      <<69247, 69247>>, <<69290, 69290>>, <<69294, 69295>>,
      <<69298, 69375>>, <<69416, 69423>>, <<69466, 69487>>,
      <<69514, 69551>>, <<69580, 69599>>, <<69623, 69631>>,
      <<69710, 69713>>, <<69750, 69758>>, <<69821, 69821>>,
      <<69827, 69839>>, <<69865, 69871>>, <<69882, 69887>>,
      <<69941, 69941>>, <<69960, 69967>>, <<70007, 70015>>,
      <<70112, 70112>>, <<70133, 70143>>, <<70162, 70162>>,
      <<70207, 70271>>, <<70279, 70279>>, <<70281, 70281>>,
      <<70286, 70286>>, <<70302, 70302>>, <<70314, 70319>>,
      <<70379, 70383>>, <<70394, 70399>>, <<70404, 70404>>,
      <<70413, 70414>>, <<70417, 70418>>, <<70441, 70441>>,
      <<70449, 70449>>, <<70452, 70452>>, <<70458, 70458>>,
      <<70469, 70470>>, <<70473, 70474>>, <<70478, 70479>>,
      <<70481, 70486>>, <<70488, 70492>>, <<70500, 70501>>,
      <<70509, 70511>>, <<70517, 70655>>, <<70748, 70748>>,
      <<70754, 70783>>, <<70856, 70863>>, <<70874, 71039>>,
      <<71094, 71095>>, <<71134, 71167>>, <<71237, 71247>>,
      <<71258, 71263>>, <<71277, 71295>>, <<71354, 71359>>,
      <<71370, 71423>>, <<71451, 71452>>, <<71468, 71471>>,
      <<71495, 71679>>, <<71740, 71839>>, <<71923, 71934>>,
      <<71943, 71944>>, <<71946, 71947>>, <<71956, 71956>>,
      <<71959, 71959>>, <<71990, 71990>>, <<71993, 71994>>,
      <<72007, 72015>>, <<72026, 72095>>, <<72104, 72105>>,
      <<72152, 72153>>, <<72165, 72191>>, <<72264, 72271>>,
      <<72355, 72367>>, <<72441, 72703>>, <<72713, 72713>>,
      <<72759, 72759>>, <<72774, 72783>>, <<72813, 72815>>,
      <<72848, 72849>>, <<72872, 72872>>, <<72887, 72959>>,
      <<72967, 72967>>, <<72970, 72970>>, <<73015, 73017>>,
      <<73019, 73019>>, <<73022, 73022>>, <<73032, 73039>>,
      <<73050, 73055>>, <<73062, 73062>>, <<73065, 73065>>,
      <<73103, 73103>>, <<73106, 73106>>, <<73113, 73119>>,
      <<73130, 73439>>, <<73465, 73647>>, <<73649, 73663>>,
      <<73714, 73726>>, <<74650, 74751>>, <<74863, 74863>>,
      <<74869, 74879>>, <<75076, 77711>>, <<77811, 77823>>,
      <<78895, 82943>>, <<83527, 92159>>, <<92729, 92735>>,
      <<92767, 92767>>, <<92778, 92781>>, <<92863, 92863>>,
      <<92874, 92879>>, <<92910, 92911>>, <<92918, 92927>>,
      <<92998, 93007>>, <<93018, 93018>>, <<93026, 93026>>,
      <<93048, 93052>>, <<93072, 93759>>, <<93851, 93951>>,
      <<94027, 94030>>, <<94088, 94094>>, <<94112, 94175>>,
      <<94181, 94191>>, <<94194, 94207>>, <<100344, 100351>>,
      <<101590, 101631>>, <<101641, 110575>>, <<110580, 110580>>,
      <<110588, 110588>>, <<110591, 110591>>, <<110883, 110927>>,
      <<110931, 110947>>, <<110952, 110959>>, <<111356, 113663>>,
      <<113771, 113775>>, <<113789, 113791>>, <<113801, 113807>>,
      <<113818, 113819>>, <<113824, 118527>>, <<118574, 118575>>,
      <<118599, 118607>>, <<118724, 118783>>, <<119030, 119039>>,
      <<119079, 119080>>, <<119155, 119162>>, <<119275, 119295>>,
      <<119366, 119519>>, <<119540, 119551>>, <<119639, 119647>>,
      <<119673, 119807>>, <<119893, 119893>>, <<119965, 119965>>,
      <<119968, 119969>>, <<119971, 119972>>, <<119975, 119976>>,
      <<119981, 119981>>, <<119994, 119994>>, <<119996, 119996>>,
      <<120004, 120004>>, <<120070, 120070>>, <<120075, 120076>>,
      <<120085, 120085>>, <<120093, 120093>>, <<120122, 120122>>,
      <<120127, 120127>>, <<120133, 120133>>, <<120135, 120137>>,
      <<120145, 120145>>, <<120486, 120487>>, <<120780, 120781>>,
      <<121484, 121498>>, <<121504, 121504>>, <<121520, 122623>>,
      <<122655, 122879>>, <<122887, 122887>>, <<122905, 122906>>,
      <<122914, 122914>>, <<122917, 122917>>, <<122923, 123135>>,
      <<123181, 123183>>, <<123198, 123199>>, <<123210, 123213>>,
      <<123216, 123535>>, <<123567, 123583>>, <<123642, 123646>>,
      <<123648, 124895>>, <<124903, 124903>>, <<124908, 124908>>,
      <<124911, 124911>>, <<124927, 124927>>, <<125125, 125126>>,
      <<125143, 125183>>, <<125260, 125263>>, <<125274, 125277>>,
      <<125280, 126064>>, <<126133, 126208>>, <<126270, 126463>>,
      <<126468, 126468>>, <<126496, 126496>>, <<126499, 126499>>,
      <<126501, 126502>>, <<126504, 126504>>, <<126515, 126515>>,
      <<126520, 126520>>, <<126522, 126522>>, <<126524, 126529>>,
      <<126531, 126534>>, <<126536, 126536>>, <<126538, 126538>>,
      <<126540, 126540>>, <<126544, 126544>>, <<126547, 126547>>,
      <<126549, 126550>>, <<126552, 126552>>, <<126554, 126554>>,
      <<126556, 126556>>, <<126558, 126558>>, <<126560, 126560>>,
      <<126563, 126563>>, <<126565, 126566>>, <<126571, 126571>>,
      <<126579, 126579>>, <<126584, 126584>>, <<126589, 126589>>,
      <<126591, 126591>>, <<126602, 126602>>, <<126620, 126624>>,
      <<126628, 126628>>, <<126634, 126634>>, <<126652, 126703>>,
      <<126706, 126975>>, <<127020, 127023>>, <<127124, 127135>>,
      <<127151, 127152>>, <<127168, 127168>>, <<127184, 127184>>,
      <<127222, 127231>>, <<127406, 127461>>, <<127491, 127503>>,
      <<127548, 127551>>, <<127561, 127567>>, <<127570, 127583>>,
      <<127590, 127743>>, <<128728, 128732>>, <<128749, 128751>>,
      <<128765, 128767>>, <<128884, 128895>>, <<128985, 128991>>,
      <<129004, 129007>>, <<129009, 129023>>, <<129036, 129039>>,
      <<129096, 129103>>, <<129114, 129119>>, <<129160, 129167>>,
      <<129198, 129199>>, <<129202, 129279>>, <<129620, 129631>>,
      <<129646, 129647>>, <<129653, 129655>>, <<129661, 129663>>,
      <<129671, 129679>>, <<129709, 129711>>, <<129723, 129727>>,
      <<129734, 129743>>, <<129754, 129759>>, <<129768, 129775>>,
      <<129783, 129791>>, <<129939, 129939>>, <<129995, 130031>>,
      <<130042, 131071>>, <<173792, 173823>>, <<177977, 177983>>,
      <<178206, 178207>>, <<183970, 183983>>, <<191457, 194559>>,
      <<195102, 196607>>, <<201547, 917759>>, <<918000, 1114111>> }

\* str.isprintable of one character.
IsPrintable(c) == ~\E r \in NonPrintableRanges : r[1] <= c /\ c <= r[2]

-----------------------------------------------------------------------------
(* String literals of cli.py. *)

FP_comfy ==
    Str(<< "c", "o", "m", "f", "y" >>)

FP_comfy_execution ==
    Str(<< "c", "o", "m", "f", "y", "_", "e", "x", "e", "c", "u", "t", "i",
          "o", "n" >>)

FP_comfy_extras ==
    Str(<< "c", "o", "m", "f", "y", "_", "e", "x", "t", "r", "a", "s" >>)

CheckMsgTail ==
    Str(<< " ", "d", "o", "e", "s", " ", "n", "o", "t", " ", "l", "o", "o",
          "k", " ", "l", "i", "k", "e", " ", "a", " ", "C", "o", "m", "f",
          "y", "U", "I", " ", "w", "o", "r", "k", "s", "p", "a", "c", "e",
          ".", " ", "P", "l", "e", "a", "s", "e", " ", "g", "i", "v", "e",
          " ", "a", " ", "c", "o", "r", "r", "e", "c", "t", " ", "p", "a",
          "t", "h", "." >>)

PackMsgHead ==
    Str(<< "U+2705", " ", "[", "g", "r", "e", "e", "n", "]", "S", "u", "c",
          "c", "e", "s", "s", "f", "u", "l", "l", "y", " ", "p", "a", "c",
          "k", "e", "d", " ", "C", "o", "m", "f", "y", "U", "I", " ", "w",
          "o", "r", "k", "s", "p", "a", "c", "e", " " >>)

PackMsgMid ==
    Str(<< " ", "t", "o", " ", "B", "e", "n", "t", "o", "M", "L", " ", "m",
          "o", "d", "e", "l", " " >>)

MarkupEnd ==
    Str(<< "[", "/", "]" >>)

PackHintMsg ==
    Str(<< "[", "b", "l", "u", "e", "]", "N", "e", "x", "t", " ", "s", "t",
          "e", "p", ",", " ", "b", "u", "i", "l", "d", " ", "a", " ", "b",
          "e", "n", "t", "o", " ", "w", "i", "t", "h", " ", "t", "h", "e",
          " ", "w", "o", "r", "k", "s", "p", "a", "c", "e", ":", "\n", " ",
          " ", " ", " ", "$", " ", "b", "e", "n", "t", "o", "m", "l", " ",
          "c", "o", "m", "f", "y", "u", "i", " ", "b", "u", "i", "l", "d",
          " ", "-", "-", "m", "o", "d", "e", "l", " ", "{", "t", "a", "g",
          "}", "\n", "O", "r", ",", " ", "b", "u", "i", "l", "d", " ", "a",
          "n", "d", " ", "p", "u", "s", "h", " ", "t", "o", " ", "t", "h",
          "e", " ", "c", "l", "o", "u", "d", " ", "i", "n", " ", "o", "n",
          "e", " ", "g", "o", ":", "\n", " ", " ", " ", " ", "$", " ", "b",
          "e", "n", "t", "o", "m", "l", " ", "c", "o", "m", "f", "y", "u",
          "i", " ", "b", "u", "i", "l", "d", " ", "-", "-", "p", "u", "s",
          "h", " ", "-", "-", "m", "o", "d", "e", "l", " ", "{", "t", "a",
          "g", "}", "[", "/", "]" >>)

MsgCreatingRequirements ==
    Str(<< "U+1F4C2", " ", "[", "b", "l", "u", "e", "]", "C", "r", "e", "a",
          "t", "i", "n", "g", " ", "r", "e", "q", "u", "i", "r", "e", "m",
          "e", "n", "t", "s", ".", "t", "x", "t", "[", "/", "]" >>)

MsgCreatingService ==
    Str(<< "U+1F4C2", " ", "[", "b", "l", "u", "e", "]", "C", "r", "e", "a",
          "t", "i", "n", "g", " ", "s", "e", "r", "v", "i", "c", "e", ".",
          "p", "y", "[", "/", "]" >>)

MsgCreatingWorkflow ==
    Str(<< "U+1F4C2", " ", "[", "b", "l", "u", "e", "]", "C", "r", "e", "a",
          "t", "i", "n", "g", " ", "w", "o", "r", "k", "f", "l", "o", "w",
          ".", "j", "s", "o", "n", "[", "/", "]" >>)

BuildMsgHead ==
    Str(<< "U+2705", " ", "[", "g", "r", "e", "e", "n", "]", "S", "u", "c",
          "c", "e", "s", "s", "f", "u", "l", "l", "y", " ", "b", "u", "i",
          "l", "t", " ", "B", "e", "n", "t", "o", " " >>)

BuildMsgMid ==
    Str(<< " ", "f", "r", "o", "m", " ", "C", "o", "m", "f", "y", "U", "I",
          " ", "w", "o", "r", "k", "f", "l", "o", "w", " " >>)

NextStepsHead ==
    Str(<< "[", "b", "l", "u", "e", "]", "N", "e", "x", "t", " ", "s", "t",
          "e", "p", "s", ":" >>)

NextStepsDeployHead ==
    Str(<< "\n", "\n", "*", " ", "D", "e", "p", "l", "o", "y", " ", "t",
          "o", " ", "B", "e", "n", "t", "o", "C", "l", "o", "u", "d", ":",
          "\n", " ", " ", " ", " ", "$", " ", "b", "e", "n", "t", "o", "m",
          "l", " ", "d", "e", "p", "l", "o", "y", " " >>)

NextStepsDeployTail ==
    Str(<< " ", "-", "n", " ", "$", "{", "D", "E", "P", "L", "O", "Y", "M",
          "E", "N", "T", "_", "N", "A", "M", "E", "}" >>)

NextStepsUpdateHead ==
    Str(<< "\n", "\n", "*", " ", "U", "p", "d", "a", "t", "e", " ", "a",
          "n", " ", "e", "x", "i", "s", "t", "i", "n", "g", " ", "d", "e",
          "p", "l", "o", "y", "m", "e", "n", "t", " ", "o", "n", " ", "B",
          "e", "n", "t", "o", "C", "l", "o", "u", "d", ":", "\n", " ", " ",
          " ", " ", "$", " ", "b", "e", "n", "t", "o", "m", "l", " ", "d",
          "e", "p", "l", "o", "y", "m", "e", "n", "t", " ", "u", "p", "d",
          "a", "t", "e", " ", "-", "-", "b", "e", "n", "t", "o", " " >>)

NextStepsUpdateTail ==
    Str(<< " ", "$", "{", "D", "E", "P", "L", "O", "Y", "M", "E", "N", "T",
          "_", "N", "A", "M", "E", "}", "[", "/", "]" >>)

DefaultPackName ==
    Str(<< "c", "o", "m", "f", "y", "u", "i" >>)

DefaultBuildName ==
    Str(<< "c", "o", "m", "f", "y", "u", "i", "-", "s", "e", "r", "v", "i",
          "c", "e" >>)

DefaultModel ==
    Str(<< "c", "o", "m", "f", "y", "u", "i" >>)

DefaultWorkspace ==
    Str(<< "." >>)

-----------------------------------------------------------------------------
(* Values. *)

\* Python's None for an optional str, and a given str.
None == [some |-> FALSE, val |-> << >>]

Some(s) == [some |-> TRUE, val |-> s]

\* The truth value Python gives an optional str: None and "" are false.
Truthy(v) == v.some /\ Len(v.val) > 0

\* The exception that leaves the command: the step that raised it and its
\* message.
NoError == [type |-> "None", msg |-> << >>]

Raised(type, msg) == [type |-> type, msg |-> msg]

\* One invocation of an external routine: its arguments, whether it
\* returned (ok) or raised, and what it returned.
Call(fn, a, ok, ret) == [fn |-> fn, args |-> a, ok |-> ok, ret |-> ret]

\* The entry of a call that raised: it returned nothing.
NoReturn == << >>

HasChar(s, c) == \E i \in 1..Len(s) : s[i] = c

\* s[i..j] in TLA+ indexing, empty when j < i.
Slice(s, i, j) == IF j < i THEN << >> ELSE SubSeq(s, i, j)

-----------------------------------------------------------------------------
(* repr() of a str, as the !r conversion of an f-string applies it. *)

ReprQuote(s) ==
    IF HasChar(s, Quote) /\ ~HasChar(s, DoubleQuote) THEN DoubleQuote ELSE Quote

HexDigit(n) == IF n < 10 THEN Digit0 + n ELSE LetterA + (n - 10)

\* c in lower-case hexadecimal, width digits wide.
RECURSIVE Hex(_, _)
Hex(c, width) ==
    IF width = 0 THEN << >>
    ELSE Append(Hex(c \div 16, width - 1), HexDigit(c % 16))

\* The escape repr writes for a character that is not printable:
\* \xhh below U+0100, \uhhhh below U+10000, \Uhhhhhhhh from there on.
HexEscape(c) ==
    IF c < 256 THEN <<Backslash, LetterX>> \o Hex(c, 2)
    ELSE IF c < 65536 THEN <<Backslash, LetterU>> \o Hex(c, 4)
    ELSE <<Backslash, CapitalU>> \o Hex(c, 8)

ReprChar(c, q) ==
    IF c = q \/ c = Backslash THEN <<Backslash, c>>
    ELSE IF c = Newline THEN <<Backslash, LetterN>>
    ELSE IF c = Tab THEN <<Backslash, LetterT>>
    ELSE IF c = Return THEN <<Backslash, LetterR>>
    ELSE IF c < 32 \/ c = 127 THEN HexEscape(c)
    ELSE IF c < 127 THEN <<c>>
    ELSE IF IsPrintable(c) THEN <<c>>
    ELSE HexEscape(c)

RECURSIVE ReprBody(_, _)
ReprBody(s, q) ==
    IF s = << >> THEN << >>
    ELSE ReprChar(Head(s), q) \o ReprBody(Tail(s), q)

PyRepr(s) == <<ReprQuote(s)>> \o ReprBody(s, ReprQuote(s)) \o <<ReprQuote(s)>>

-----------------------------------------------------------------------------
(* The workspace validator. *)

comfy_fingerprints == <<FP_comfy, FP_comfy_execution, FP_comfy_extras>>

\* pathlib on POSIX: a path is a root ("", "/" or "//") and the components
\* between slashes; empty and "." components are dropped, ".." is kept.
IsAbsolute(s) == Len(s) > 0 /\ s[1] = Slash

PathRoot(s) ==
    IF ~IsAbsolute(s) THEN << >>
    ELSE IF Len(s) >= 2 /\ s[2] = Slash /\ (Len(s) = 2 \/ s[3] # Slash)
         THEN <<Slash, Slash>>
    ELSE <<Slash>>

KeptPart(cur) == IF cur = << >> \/ cur = <<Dot>> THEN << >> ELSE <<cur>>

\* The components of s, cur being the component read so far.
RECURSIVE PathParts(_, _)
PathParts(s, cur) ==
    IF s = << >> THEN KeptPart(cur)
    ELSE IF Head(s) = Slash THEN KeptPart(cur) \o PathParts(Tail(s), << >>)
    ELSE PathParts(Tail(s), Append(cur, Head(s)))

RECURSIVE JoinParts(_)
JoinParts(parts) ==
    IF parts = << >> THEN << >>
    ELSE IF Len(parts) = 1 THEN parts[1]
    ELSE parts[1] \o <<Slash>> \o JoinParts(Tail(parts))

\* str() of a path.
PathStr(root, parts) ==
    IF parts = << >> THEN (IF root = << >> THEN <<Dot>> ELSE root)
    ELSE root \o JoinParts(parts)

\* str(Path(workspace, fingerprint)): an absolute second segment replaces
\* the first.
PathJoin(workspace, fingerprint) ==
    IF IsAbsolute(fingerprint)
    THEN PathStr(PathRoot(fingerprint), PathParts(fingerprint, << >>))
    ELSE PathStr(PathRoot(workspace),
                 PathParts(workspace, << >>) \o PathParts(fingerprint, << >>))

\* The disk holds paths in the form str(Path(..)) gives them: those that
\* exist, and those whose stat fails with an error Path.exists does not turn
\* into False (EACCES on an unsearchable directory, ENAMETOOLONG, ..).
ExistsRaises(disk, path) == PathJoin(path, << >>) \in disk.unreadable

\* What Path.exists returns when it returns.
Exists(disk, path) == PathJoin(path, << >>) \in disk.present

CheckMessage(workspace) == PyRepr(workspace) \o CheckMsgTail

\* A validator that looks at one marker only and then returns.
CheckFromOneMarker(disk, workspace, i) ==
    IF ExistsRaises(disk, PathJoin(workspace, comfy_fingerprints[i]))
    THEN Raised("OSError", << >>)
    ELSE IF ~Exists(disk, PathJoin(workspace, comfy_fingerprints[i]))
    THEN Raised("InvalidArgument", CheckMessage(workspace))
    ELSE NoError

\* The loop of lines 15-19 from fingerprint i on: the error raised, or
\* NoError when the loop ends.  An OSError of Path.exists is not caught.
RECURSIVE CheckFrom(_, _, _)
CheckFrom(disk, workspace, i) ==
    IF i > Len(comfy_fingerprints) THEN NoError
    ELSE IF ExistsRaises(disk, PathJoin(workspace, comfy_fingerprints[i]))
         THEN Raised("OSError", << >>)
    ELSE IF ~Exists(disk, PathJoin(workspace, comfy_fingerprints[i]))
         THEN Raised("InvalidArgument", CheckMessage(workspace))
    ELSE CheckFrom(disk, workspace, i + 1)

check_comfyui_workspace(disk, workspace) == CheckFrom(disk, workspace, 1)

-----------------------------------------------------------------------------
(* The inputs of the model. *)

Workspaces ==
    { DefaultWorkspace,
      Str(<<".", "/", "w", "'", "\\", "\f", "\"", "U+00AD", "U+E000", "U+10FFFF", "/">>) }

PackNames == { DefaultPackName, Str(<<"m">>) }

Versions == { None, Some(<< >>), Some(Str(<<"1">>)) }

\* The versions the model store generates for a name given without one.
GenVersions == { Str(<<"g">>) }

Fingerprints == { comfy_fingerprints[i] : i \in 1..Len(comfy_fingerprints) }

\* What the disk can hold under each workspace: the markers that exist, and
\* those whose stat fails, which may exist or not.
MarkerStates == [present : SUBSET Fingerprints, unreadable : SUBSET Fingerprints]

\* The disk on which every workspace w exists and holds the markers of on[w].
DiskOf(on) ==
    [present |->
        UNION { { PathJoin(w, << >>) } \cup { PathJoin(w, f) : f \in on[w].present } :
                w \in Workspaces },
     unreadable |->
        UNION { { PathJoin(w, f) : f \in on[w].unreadable } : w \in Workspaces }]

\* A disk build runs on: build reads no path of it.
AnyDisk == DiskOf([w \in Workspaces |-> [present |-> {}, unreadable |-> {}]])

NoArgs ==
    [cmd |-> "none", name |-> << >>, version |-> None, workspace |-> << >>,
     model |-> << >>, python |-> None, extra_python_packages |-> << >>,
     push |-> FALSE, workflow |-> << >>]

NoBento == [built |-> FALSE, tag |-> << >>]

NoFile == [exists |-> FALSE, data |-> << >>]

FileNames == {"requirements.txt", "service.py", "workflow.json"}

NoTmp == [exists |-> FALSE, created |-> FALSE, files |-> [f \in FileNames |-> NoFile]]

\* The state in which a command starts, the disk being disk.
InitOn(disk) ==
    /\ fs = disk
    /\ pc = "start"
    /\ args = NoArgs
    /\ name = << >>
    /\ tag = << >>
    /\ tmpl = << >>
    /\ tmp = NoTmp
    /\ bento = NoBento
    /\ out = << >>
    /\ calls = << >>
    /\ err = NoError

InitPack == \E on \in [Workspaces -> MarkerStates] : InitOn(DiskOf(on))

InitBuild == InitOn(AnyDisk)

-----------------------------------------------------------------------------
(* pack *)

\* The command line `bentoml comfyui pack [--name n] [--version v] [w]`.
\* click.Path(exists=True) has checked that the workspace exists.
InvokePack ==
    /\ pc = "start"
    /\ \E n \in PackNames, v \in Versions, w \in Workspaces :
          /\ Exists(fs, w)
          /\ args' = [NoArgs EXCEPT !.cmd = "pack", !.name = n, !.version = v,
                                    !.workspace = w]
          /\ name' = n
    /\ pc' = "pack_check"
    /\ UNCHANGED <<fs, tag, tmpl, tmp, bento, out, calls, err>>

\* A validator that reports the workspace it accepted.
PackCheckReporting ==
    /\ pc = "pack_check"
    /\ LET r == check_comfyui_workspace(fs, args.workspace) IN
          IF r = NoError
          THEN pc' = "pack_name" /\ err' = err
               /\ out' = Append(out, PyRepr(args.workspace))
          ELSE pc' = "raised" /\ err' = r /\ out' = out
    /\ UNCHANGED <<fs, args, name, tag, tmpl, tmp, bento, calls>>

\* A pack that calls the validator nowhere.
PackCheckSkipped ==
    /\ pc = "pack_check"
    /\ pc' = "pack_name"
    /\ UNCHANGED <<fs, args, name, tag, tmpl, tmp, bento, out, calls, err>>

\* Line 42.
PackCheck ==
    /\ pc = "pack_check"
    /\ LET r == check_comfyui_workspace(fs, args.workspace) IN
          IF r = NoError
          THEN pc' = "pack_name" /\ err' = err
          ELSE pc' = "raised" /\ err' = r
    /\ UNCHANGED <<fs, args, name, tag, tmpl, tmp, bento, out, calls>>

\* An identifier that drops the version.
PackIdentifierNoVersion(n, version) == n

\* Lines 44-45: the identifier handed to the packer.
PackIdentifier(n, version) ==
    IF Truthy(version) THEN n \o <<Colon>> \o version.val ELSE n

PackName ==
    /\ pc = "pack_name"
    /\ name' = PackIdentifier(name, args.version)
    /\ pc' = "pack_model"
    /\ UNCHANGED <<fs, args, tag, tmpl, tmp, bento, out, calls, err>>

\* The tags pack_model may return for an identifier: the identifier itself
\* when it carries a version, else the identifier with a generated version.
PackModelTags(n) ==
    IF HasChar(n, Colon) THEN { n }
    ELSE { n \o <<Colon>> \o g : g \in GenVersions }

\* Line 46, pack_model returning.
PackModelReturns ==
    /\ pc = "pack_model"
    /\ \E t \in PackModelTags(name) :
          /\ tag' = t
          /\ calls' = Append(calls, Call("pack_model", <<name, args.workspace>>, TRUE, t))
    /\ pc' = "pack_print"
    /\ UNCHANGED <<fs, args, name, tmpl, tmp, bento, out, err>>

\* Line 46, pack_model raising.
PackModelRaises ==
    /\ pc = "pack_model"
    /\ calls' = Append(calls, Call("pack_model", <<name, args.workspace>>, FALSE, NoReturn))
    /\ err' = Raised("pack_model", << >>)
    /\ pc' = "raised"
    /\ UNCHANGED <<fs, args, name, tag, tmpl, tmp, bento, out>>

\* Lines 47-49.
PackSuccessMsg(workspace, t) ==
    PackMsgHead \o PyRepr(workspace) \o PackMsgMid \o t \o MarkupEnd

\* Lines 47-55: the two rich.print calls, both returning.
PackPrint ==
    /\ pc = "pack_print"
    /\ out' = out \o << PackSuccessMsg(args.workspace, tag), PackHintMsg >>
    /\ pc' = "done"
    /\ UNCHANGED <<fs, args, name, tag, tmpl, tmp, bento, calls, err>>

\* Lines 47-49, rich.print raising (MarkupError when the text holds a
\* closing tag with nothing to close, as the repr of a workspace holding
\* [/] gives; an error of the output stream): nothing is printed.
PackConfirmPrintRaises ==
    /\ pc = "pack_print"
    /\ err' = Raised("rich.print", << >>)
    /\ pc' = "raised"
    /\ UNCHANGED <<fs, args, name, tag, tmpl, tmp, bento, out, calls>>

\* Lines 50-55, rich.print raising after the confirmation was printed.
PackHintPrintRaises ==
    /\ pc = "pack_print"
    /\ out' = Append(out, PackSuccessMsg(args.workspace, tag))
    /\ err' = Raised("rich.print", << >>)
    /\ pc' = "raised"
    /\ UNCHANGED <<fs, args, name, tag, tmpl, tmp, bento, calls>>

-----------------------------------------------------------------------------
(* build: the generated files. *)

ServiceTemplate ==
    Str(<< "s", "v", "c", "(", "n", "a", "m", "e", "=", "\"", "{", "n", "a",
          "m", "e", "}", "\"", ",", " ", "r", "e", "s", "=", "{", "{", "\"",
          "g", "p", "u", "\"", ":", " ", "1", "}", "}", ")", "\n", "m", "o",
          "d", "e", "l", " ", "=", " ", "\"", "{", "m", "o", "d", "e", "l",
          "_", "t", "a", "g", "}", "\"", "\n" >>)

TemplatePre ==
    Str(<< "s", "v", "c", "(", "n", "a", "m", "e", "=", "\"" >>)

TemplateMid ==
    Str(<< "\"", ",", " ", "r", "e", "s", "=", "{", "\"", "g", "p", "u",
          "\"", ":", " ", "1", "}", ")", "\n", "m", "o", "d", "e", "l", " ",
          "=", " ", "\"" >>)

TemplatePost ==
    Str(<< "\"", "\n" >>)

FieldName ==
    Str(<< "n", "a", "m", "e" >>)

FieldModelTag ==
    Str(<< "m", "o", "d", "e", "l", "_", "t", "a", "g" >>)

WorkflowPath ==
    Str(<< "w", "f", ".", "j", "s", "o", "n" >>)

WorkflowData ==
    Str(<< "{", "\"", "1", "\"", ":", " ", "{", "}", "}" >>)

BraceName ==
    Str(<< "s", "{", "{", "}", "}" >>)

BraceModel ==
    Str(<< "{", "n", "a", "m", "e", "}", ":", "1" >>)

\* str.format: "{{" and "}}" give one brace, "{field}" gives the value of
\* the keyword argument of that name, every other character gives itself.
\* A value is copied as it is; it is not scanned again.  The template holds
\* no conversion (!r), no format spec, no lone brace and no other field, so
\* the ValueError and KeyError of str.format are not reached.
RECURSIVE CloseIndex(_, _)
CloseIndex(t, i) ==
    IF i > Len(t) THEN 0
    ELSE IF t[i] = CloseBrace THEN i
    ELSE CloseIndex(t, i + 1)

\* A format call whose keyword arguments are exchanged.
FieldValueExchanged(field, n, model_tag) ==
    IF field = FieldName THEN model_tag
    ELSE IF field = FieldModelTag THEN n
    ELSE << >>

FieldValue(field, n, model_tag) ==
    IF field = FieldName THEN n
    ELSE IF field = FieldModelTag THEN model_tag
    ELSE << >>

RECURSIVE Format(_, _, _)
Format(t, n, model_tag) ==
    IF t = << >> THEN << >>
    ELSE IF Len(t) >= 2 /\ t[1] = OpenBrace /\ t[2] = OpenBrace
         THEN <<OpenBrace>> \o Format(Slice(t, 3, Len(t)), n, model_tag)
    ELSE IF Len(t) >= 2 /\ t[1] = CloseBrace /\ t[2] = CloseBrace
         THEN <<CloseBrace>> \o Format(Slice(t, 3, Len(t)), n, model_tag)
    ELSE IF t[1] = OpenBrace /\ CloseIndex(t, 2) > 0
         THEN FieldValue(Slice(t, 2, CloseIndex(t, 2) - 1), n, model_tag)
              \o Format(Slice(t, CloseIndex(t, 2) + 1, Len(t)), n, model_tag)
    ELSE <<t[1]>> \o Format(Tail(t), n, model_tag)

\* A loop that writes a package only the first time it meets it.
RECURSIVE ExtraLinesOnce(_, _)
ExtraLinesOnce(packages, i) ==
    IF i > Len(packages) THEN << >>
    ELSE (IF \E j \in 1..(i - 1) : packages[j] = packages[i]
          THEN << >>
          ELSE <<Newline>> \o packages[i]) \o ExtraLinesOnce(packages, i + 1)

\* Lines 122-123: what the loop writes for the packages from index i on.
RECURSIVE ExtraLines(_, _)
ExtraLines(packages, i) ==
    IF i > Len(packages) THEN << >>
    ELSE <<Newline>> \o packages[i] \o ExtraLines(packages, i + 1)

\* Lines 121-123: the base requirements, then the first k extra packages.
RequirementsText(base, packages, k) ==
    base \o ExtraLines(SubSeq(packages, 1, k), 1)

\* The WORKFLOW arguments: a plain path, one repr quotes with ",
\* and one that holds a closing markup tag.
Workflows ==
    { WorkflowPath,
      Str(<<"w", "'", ".", "j", "s", "o", "n">>),
      Str(<<"a", "[", "/", "]", "b", ".", "j", "s", "o", "n">>) }

BuildNames == { DefaultBuildName, BraceName }

BuildVersions == { None, Some(Str(<<"1">>)) }

Models == { DefaultModel, BraceModel }

Packages == { Str(<<"a">>), Str(<<"b", "=", "1">>) }

\* What get_requirements may return.
BaseRequirements == { Str(<<"x", "\n", "y">>), Str(<<"z">>) }

RECURSIVE SeqsUpTo(_, _)
SeqsUpTo(S, n) ==
    IF n = 0 THEN { << >> }
    ELSE SeqsUpTo(S, n - 1) \cup
         { Append(s, x) : s \in { q \in SeqsUpTo(S, n - 1) : Len(q) = n - 1 }, x \in S }

ExtraPackageSeqs == SeqsUpTo(Packages, MaxExtras)

\* The tags bentoml.build may give the bento it returns.
BentoTags(n, version) ==
    IF version.some THEN { n \o <<Colon>> \o version.val }
    ELSE { n \o <<Colon>> \o g : g \in GenVersions }

File(data) == [exists |-> TRUE, data |-> data]

\* What a file may hold when writing text to it was cut short.
Prefixes(text) == { Slice(text, 1, k) : k \in 0..Len(text) }

-----------------------------------------------------------------------------
(* build *)

\* The command line `bentoml comfyui build [options] WORKFLOW`.
InvokeBuild ==
    /\ pc = "start"
    /\ \E n \in BuildNames, v \in BuildVersions, m \in Models,
          x \in ExtraPackageSeqs, p \in BOOLEAN, w \in Workflows :
          args' = [NoArgs EXCEPT !.cmd = "build", !.name = n, !.version = v,
                                 !.model = m, !.extra_python_packages = x,
                                 !.push = p, !.workflow = w]
    /\ pc' = "build_read_text"
    /\ UNCHANGED <<fs, name, tag, tmpl, tmp, bento, out, calls, err>>

\* Line 113, read_text returning.
ReadTemplateReturns ==
    /\ pc = "build_read_text"
    /\ tmpl' = ServiceTemplate
    /\ pc' = "build_mkdtemp"
    /\ UNCHANGED <<fs, args, name, tag, tmp, bento, out, calls, err>>

\* Line 113, read_text raising: no temporary directory was made.
ReadTemplateRaises ==
    /\ pc = "build_read_text"
    /\ err' = Raised("read_text", << >>)
    /\ pc' = "raised"
    /\ UNCHANGED <<fs, args, name, tag, tmpl, tmp, bento, out, calls>>

\* Lines 115-117, entering the with statement.
EnterTemporaryDirectory ==
    /\ pc = "build_mkdtemp"
    /\ tmp' = [NoTmp EXCEPT !.exists = TRUE, !.created = TRUE]
    /\ pc' = "build_requirements"
    /\ UNCHANGED <<fs, args, name, tag, tmpl, bento, out, calls, err>>

\* Line 115, tempfile.TemporaryDirectory raising (no usable temporary
\* directory, mkdtemp failing): no directory is made and the with statement
\* is not entered.
TemporaryDirectoryRaises ==
    /\ pc = "build_mkdtemp"
    /\ err' = Raised("TemporaryDirectory", << >>)
    /\ pc' = "raised"
    /\ UNCHANGED <<fs, args, name, tag, tmpl, tmp, bento, out, calls>>

\* An exception inside the with statement: control goes to its exit.
RaiseInWith(e) ==
    /\ err' = e
    /\ pc' = "build_exit_with"

\* Lines 119-123 with nothing raising.  open(.., "w") makes the file
\* before get_requirements is called.
RequirementsWritten ==
    /\ pc = "build_requirements"
    /\ out' = Append(out, MsgCreatingRequirements)
    /\ \E base \in BaseRequirements :
          /\ tmp' = [tmp EXCEPT !.files["requirements.txt"] =
                        File(RequirementsText(base, args.extra_python_packages,
                                              Len(args.extra_python_packages)))]
          /\ calls' = Append(calls, Call("get_requirements", <<args.python>>, TRUE, base))
    /\ pc' = "build_service"
    /\ UNCHANGED <<fs, args, name, tag, tmpl, bento, err>>

\* Line 121, get_requirements raising: the file is left empty.
GetRequirementsRaises ==
    /\ pc = "build_requirements"
    /\ out' = Append(out, MsgCreatingRequirements)
    /\ tmp' = [tmp EXCEPT !.files["requirements.txt"] = File(<< >>)]
    /\ calls' = Append(calls, Call("get_requirements", <<args.python>>, FALSE, NoReturn))
    /\ RaiseInWith(Raised("get_requirements", << >>))
    /\ UNCHANGED <<fs, args, name, tag, tmpl, bento>>

\* Line 120, open raising: there is no file, and get_requirements is not
\* called.
\* Line 119, rich.print raising: nothing is printed, no file is made.
RequirementsPrintRaises ==
    /\ pc = "build_requirements"
    /\ RaiseInWith(Raised("rich.print", << >>))
    /\ UNCHANGED <<fs, args, name, tag, tmpl, tmp, bento, out, calls>>

RequirementsOpenRaises ==
    /\ pc = "build_requirements"
    /\ out' = Append(out, MsgCreatingRequirements)
    /\ RaiseInWith(Raised("OSError", << >>))
    /\ UNCHANGED <<fs, args, name, tag, tmpl, tmp, bento, calls>>

\* Lines 120-123, a write or the closing of the buffered file raising: the
\* file holds some prefix of the text, which may be all of it.
RequirementsWriteRaises ==
    /\ pc = "build_requirements"
    /\ out' = Append(out, MsgCreatingRequirements)
    /\ \E base \in BaseRequirements :
          /\ \E data \in Prefixes(RequirementsText(base, args.extra_python_packages,
                                                   Len(args.extra_python_packages))) :
                tmp' = [tmp EXCEPT !.files["requirements.txt"] = File(data)]
          /\ calls' = Append(calls, Call("get_requirements", <<args.python>>, TRUE, base))
    /\ RaiseInWith(Raised("OSError", << >>))
    /\ UNCHANGED <<fs, args, name, tag, tmpl, bento>>

\* Lines 124-126 with nothing raising.
ServiceWritten ==
    /\ pc = "build_service"
    /\ out' = Append(out, MsgCreatingService)
    /\ tmp' = [tmp EXCEPT !.files["service.py"] =
                  File(Format(tmpl, args.name, args.model))]
    /\ pc' = "build_workflow"
    /\ UNCHANGED <<fs, args, name, tag, tmpl, bento, calls, err>>

\* Line 124, rich.print raising.
ServicePrintRaises ==
    /\ pc = "build_service"
    /\ RaiseInWith(Raised("rich.print", << >>))
    /\ UNCHANGED <<fs, args, name, tag, tmpl, tmp, bento, out, calls>>

\* Line 125, open raising: there is no file.
ServiceOpenRaises ==
    /\ pc = "build_service"
    /\ out' = Append(out, MsgCreatingService)
    /\ RaiseInWith(Raised("OSError", << >>))
    /\ UNCHANGED <<fs, args, name, tag, tmpl, tmp, bento, calls>>

\* Lines 125-126, the write or the closing of the buffered file raising:
\* the file holds some prefix of the text, which may be all of it.
ServiceWriteRaises ==
    /\ pc = "build_service"
    /\ out' = Append(out, MsgCreatingService)
    /\ \E data \in Prefixes(Format(tmpl, args.name, args.model)) :
          tmp' = [tmp EXCEPT !.files["service.py"] = File(data)]
    /\ RaiseInWith(Raised("OSError", << >>))
    /\ UNCHANGED <<fs, args, name, tag, tmpl, bento, calls>>

\* Lines 127-128 with nothing raising: the workflow is copied as it is.
WorkflowCopied ==
    /\ pc = "build_workflow"
    /\ out' = Append(out, MsgCreatingWorkflow)
    /\ tmp' = [tmp EXCEPT !.files["workflow.json"] = File(WorkflowData)]
    /\ pc' = "build_build"
    /\ UNCHANGED <<fs, args, name, tag, tmpl, bento, calls, err>>

\* Line 127, rich.print raising.
WorkflowPrintRaises ==
    /\ pc = "build_workflow"
    /\ RaiseInWith(Raised("rich.print", << >>))
    /\ UNCHANGED <<fs, args, name, tag, tmpl, tmp, bento, out, calls>>

\* A copy whose failure is caught and passed over.
WorkflowCopyFailureIgnored ==
    /\ pc = "build_workflow"
    /\ out' = Append(out, MsgCreatingWorkflow)
    /\ pc' = "build_build"
    /\ UNCHANGED <<fs, args, name, tag, tmpl, tmp, bento, calls, err>>

\* Line 128, shutil.copy2 raising: before it made the destination, or with
\* the destination holding some prefix of the workflow, which may be all.
WorkflowCopyRaises ==
    /\ pc = "build_workflow"
    /\ out' = Append(out, MsgCreatingWorkflow)
    /\ \/ tmp' = tmp
       \/ \E data \in Prefixes(WorkflowData) :
             tmp' = [tmp EXCEPT !.files["workflow.json"] = File(data)]
    /\ RaiseInWith(Raised("copy2", << >>))
    /\ UNCHANGED <<fs, args, name, tag, tmpl, bento, calls>>

\* What the build routine is given and finds: its keyword arguments and
\* the temporary directory as it is at the call.
BuildCallArgs == <<args.name, args.version, tmp>>

\* Lines 129-148, bentoml.build returning.
BuildReturns ==
    /\ pc = "build_build"
    /\ \E t \in BentoTags(args.name, args.version) :
          /\ bento' = [built |-> TRUE, tag |-> t]
          /\ calls' = Append(calls, Call("build", BuildCallArgs, TRUE,
                                         [built |-> TRUE, tag |-> t]))
    /\ pc' = "build_exit_with"
    /\ UNCHANGED <<fs, args, name, tag, tmpl, tmp, out, err>>

\* Lines 129-148, bentoml.build raising.
BuildRaises ==
    /\ pc = "build_build"
    /\ calls' = Append(calls, Call("build", BuildCallArgs, FALSE, NoReturn))
    /\ RaiseInWith(Raised("build", << >>))
    /\ UNCHANGED <<fs, args, name, tag, tmpl, tmp, bento, out>>

\* A directory removed after the build only, not when a step raised.
ExitRemovingOnSuccessOnly ==
    /\ pc = "build_exit_with"
    /\ tmp' = IF err = NoError THEN [NoTmp EXCEPT !.created = TRUE] ELSE tmp
    /\ pc' = IF err = NoError THEN "build_print" ELSE "raised"
    /\ UNCHANGED <<fs, args, name, tag, tmpl, bento, out, calls, err>>

\* Lines 115-148, leaving the with statement: the directory is removed,
\* and an exception raised inside goes on to the caller.
ExitTemporaryDirectory ==
    /\ pc = "build_exit_with"
    /\ tmp' = [NoTmp EXCEPT !.created = TRUE]
    /\ pc' = IF err = NoError THEN "build_print" ELSE "raised"
    /\ UNCHANGED <<fs, args, name, tag, tmpl, bento, out, calls, err>>

\* What a removal that failed may leave of the files: each is gone or as
\* it was.
LeftBy(files) ==
    { g \in [FileNames -> { files[f] : f \in FileNames } \cup { NoFile }] :
        \A f \in FileNames : g[f] \in { files[f], NoFile } }

\* Lines 115-148, leaving the with statement with the removal of the
\* directory raising: the directory stays, and the error of the removal is
\* the exception that leaves build, whether or not one was raised inside.
ExitCleanupRaises ==
    /\ pc = "build_exit_with"
    /\ \E left \in LeftBy(tmp.files) : tmp' = [tmp EXCEPT !.files = left]
    /\ err' = Raised("cleanup", << >>)
    /\ pc' = "raised"
    /\ UNCHANGED <<fs, args, name, tag, tmpl, bento, out, calls>>

\* Lines 149-151.
BuildSuccessMsg(t, workflow) ==
    BuildMsgHead \o t \o BuildMsgMid \o PyRepr(workflow) \o MarkupEnd

\* A build that pushes whether or not --push was given.
BuildPrintAlwaysPush ==
    /\ pc = "build_print"
    /\ out' = Append(out, BuildSuccessMsg(bento.tag, args.workflow))
    /\ pc' = "build_push"
    /\ UNCHANGED <<fs, args, name, tag, tmpl, tmp, bento, calls, err>>

\* Lines 149-152, rich.print returning.
BuildPrint ==
    /\ pc = "build_print"
    /\ out' = Append(out, BuildSuccessMsg(bento.tag, args.workflow))
    /\ pc' = IF args.push THEN "build_push" ELSE "done"
    /\ UNCHANGED <<fs, args, name, tag, tmpl, tmp, bento, calls, err>>

\* Lines 149-151, rich.print raising (MarkupError when the text holds a
\* closing tag with nothing to close, as the repr of a workflow path
\* holding [/] gives; an error of the output stream): nothing is printed
\* and lines 152-160 do not run.
BuildPrintRaises ==
    /\ pc = "build_print"
    /\ err' = Raised("rich.print", << >>)
    /\ pc' = "raised"
    /\ UNCHANGED <<fs, args, name, tag, tmpl, tmp, bento, out, calls>>

\* Line 153, bentoml.push returning.
PushReturns ==
    /\ pc = "build_push"
    /\ calls' = Append(calls, Call("push", <<bento>>, TRUE, NoReturn))
    /\ pc' = "build_next_steps"
    /\ UNCHANGED <<fs, args, name, tag, tmpl, tmp, bento, out, err>>

\* Line 153, bentoml.push raising.
PushRaises ==
    /\ pc = "build_push"
    /\ calls' = Append(calls, Call("push", <<bento>>, FALSE, NoReturn))
    /\ err' = Raised("push", << >>)
    /\ pc' = "raised"
    /\ UNCHANGED <<fs, args, name, tag, tmpl, tmp, bento, out>>

\* Lines 154-159.
NextStepsMsg(t) ==
    NextStepsHead \o NextStepsDeployHead \o t \o NextStepsDeployTail
                  \o NextStepsUpdateHead \o t \o NextStepsUpdateTail

\* Lines 154-160, rich.print raising.
NextStepsPrintRaises ==
    /\ pc = "build_next_steps"
    /\ err' = Raised("rich.print", << >>)
    /\ pc' = "raised"
    /\ UNCHANGED <<fs, args, name, tag, tmpl, tmp, bento, out, calls>>

\* Lines 154-160, rich.print returning.
PrintNextSteps ==
    /\ pc = "build_next_steps"
    /\ out' = Append(out, NextStepsMsg(bento.tag))
    /\ pc' = "done"
    /\ UNCHANGED <<fs, args, name, tag, tmpl, tmp, bento, calls, err>>

\* The steps of pack.
NextPack ==
    \/ InvokePack
    \/ PackCheck
    \/ PackName
    \/ PackModelReturns
    \/ PackModelRaises
    \/ PackPrint
    \/ PackConfirmPrintRaises
    \/ PackHintPrintRaises

\* The steps of build.
NextBuild ==
    \/ InvokeBuild
    \/ ReadTemplateReturns
    \/ ReadTemplateRaises
    \/ EnterTemporaryDirectory
    \/ TemporaryDirectoryRaises
    \/ RequirementsPrintRaises
    \/ RequirementsWritten
    \/ GetRequirementsRaises
    \/ RequirementsOpenRaises
    \/ RequirementsWriteRaises
    \/ ServicePrintRaises
    \/ ServiceWritten
    \/ ServiceOpenRaises
    \/ ServiceWriteRaises
    \/ WorkflowPrintRaises
    \/ WorkflowCopied
    \/ WorkflowCopyRaises
    \/ BuildReturns
    \/ BuildRaises
    \/ ExitTemporaryDirectory
    \/ ExitCleanupRaises
    \/ BuildPrint
    \/ BuildPrintRaises
    \/ PushReturns
    \/ PushRaises
    \/ PrintNextSteps
    \/ NextStepsPrintRaises

Init == InitPack

Next == NextPack \/ NextBuild

Spec == Init /\ [][Next]_vars

\* The runs of pack, on every disk.
SpecPack == InitPack /\ [][NextPack]_vars

\* The runs of build.
SpecBuild == InitBuild /\ [][NextBuild]_vars

-----------------------------------------------------------------------------
(* Vocabulary of the properties. *)

Contains(s, sub) ==
    \E i \in 0..(Len(s) - Len(sub)) : Slice(s, i + 1, i + Len(sub)) = sub

StartsWith(s, prefix) ==
    Len(s) >= Len(prefix) /\ Slice(s, 1, Len(prefix)) = prefix

HexDigitValue(d) == IF d >= LetterA THEN d - LetterA + 10 ELSE d - Digit0

\* The number a sequence of hexadecimal digits denotes.
RECURSIVE HexValue(_)
HexValue(d) ==
    IF d = << >> THEN 0
    ELSE HexValue(Slice(d, 1, Len(d) - 1)) * 16 + HexDigitValue(d[Len(d)])

\* The number of hexadecimal digits after \x, \u and \U, 0 after any other
\* character.
EscapeWidth(c) ==
    IF c = LetterX THEN 2 ELSE IF c = LetterU THEN 4 ELSE IF c = CapitalU THEN 8 ELSE 0

\* The str the body of a Python str literal denotes: the inverse of repr.
RECURSIVE Unescape(_)
Unescape(s) ==
    IF s = << >> THEN << >>
    ELSE IF s[1] = Backslash /\ Len(s) >= 2
         THEN IF EscapeWidth(s[2]) > 0
              THEN <<HexValue(Slice(s, 3, 2 + EscapeWidth(s[2])))>>
                   \o Unescape(Slice(s, 3 + EscapeWidth(s[2]), Len(s)))
              ELSE << (IF s[2] = LetterN THEN Newline
                       ELSE IF s[2] = LetterT THEN Tab
                       ELSE IF s[2] = LetterR THEN Return
                       ELSE s[2]) >> \o Unescape(Slice(s, 3, Len(s)))
    ELSE <<s[1]>> \o Unescape(Tail(s))

IsLiteralOf(lit, s) ==
    /\ Len(lit) >= 2
    /\ lit[1] \in {Quote, DoubleQuote}
    /\ lit[Len(lit)] = lit[1]
    /\ Unescape(Slice(lit, 2, Len(lit) - 1)) = s

\* The message is a str literal of the path followed by the fixed text.
NamesPath(msg, path) ==
    /\ Len(msg) > Len(CheckMsgTail)
    /\ Slice(msg, Len(msg) - Len(CheckMsgTail) + 1, Len(msg)) = CheckMsgTail
    /\ IsLiteralOf(Slice(msg, 1, Len(msg) - Len(CheckMsgTail)), path)

\* The markers that do not exist under w.
MissingMarkers(disk, w) == { f \in Fingerprints : ~Exists(disk, PathJoin(w, f)) }

\* The markers under w whose existence test raises.
UnreadableMarkers(disk, w) ==
    { f \in Fingerprints : ExistsRaises(disk, PathJoin(w, f)) }

\* The places, in the order of the validator, of the markers the validator
\* does not find: those that are missing or whose test raises.
NotFound(disk, w) ==
    { i \in 1..Len(comfy_fingerprints) :
        comfy_fingerprints[i] \in MissingMarkers(disk, w) \cup UnreadableMarkers(disk, w) }

\* The first of them.
FirstNotFound(disk, w) ==
    comfy_fingerprints[CHOOSE i \in NotFound(disk, w) :
                          \A j \in NotFound(disk, w) : i <= j]

\* The validator has run in this pack command.
Checked == args.cmd = "pack" /\ pc \notin {"start", "pack_check"}

CallsOf(fn) == { i \in 1..Len(calls) : calls[i].fn = fn }

Finished == pc \in {"done", "raised"}

-----------------------------------------------------------------------------
(* C1, as claimed: for every workspace in which at least one of the three *)
(* markers comfy, comfy_execution, comfy_extras does not exist, whichever *)
(* marker or markers are missing, the validator raises InvalidArgument    *)
(* with a message that names the path.                                    *)
C1_MissingMarkerRaises ==
    (Checked /\ MissingMarkers(fs, args.workspace) # {}) =>
        /\ pc = "raised"
        /\ err.type = "InvalidArgument"
        /\ NamesPath(err.msg, args.workspace)

(* C1, amended: for every workspace in which a marker is not found, the   *)
(* validator raises.  When the first marker not found, in the order       *)
(* comfy, comfy_execution, comfy_extras, is one whose existence test      *)
(* returns false, it raises InvalidArgument with a message that names the *)
(* path; when it is one whose existence test raises, that OSError is what *)
(* the validator raises.                                                  *)
C1_MissingMarkerRaisesUnlessTestRaises ==
    (Checked /\ NotFound(fs, args.workspace) # {}) =>
        /\ pc = "raised"
        /\ IF FirstNotFound(fs, args.workspace) \in UnreadableMarkers(fs, args.workspace)
           THEN err = Raised("OSError", << >>)
           ELSE /\ err.type = "InvalidArgument"
                /\ NamesPath(err.msg, args.workspace)

\* Only the last marker is missing, every test returns, and the workspace
\* is the one whose name repr escapes.
C1_Witness ==
    /\ Checked
    /\ MissingMarkers(fs, args.workspace) = { FP_comfy_extras }
    /\ UnreadableMarkers(fs, args.workspace) = {}
    /\ args.workspace # DefaultWorkspace
    /\ err.type = "InvalidArgument"

(* C2, as claimed: for every workspace that holds all three markers, the  *)
(* validator returns without raising and changes nothing: the disk, the   *)
(* output, the external calls and every other piece of state are as       *)
(* before the call.                                                       *)
C2_ValidCheckHasNoEffect ==
    [][(pc = "pack_check" /\ MissingMarkers(fs, args.workspace) = {}) =>
          /\ pc' = "pack_name"
          /\ err' = NoError
          /\ <<fs, args, name, tag, tmpl, tmp, bento, out, calls>>' =
             <<fs, args, name, tag, tmpl, tmp, bento, out, calls>>]_vars

(* C2, amended: for every workspace that holds all three markers and on   *)
(* which the existence test of each returns, the validator returns        *)
(* without raising; and on every workspace, whether it returns or raises, *)
(* it changes nothing: the disk, the output, the external calls and every *)
(* other piece of state are as before the call.                           *)
C2_ReadableValidCheckHasNoEffect ==
    [][pc = "pack_check" =>
          /\ (MissingMarkers(fs, args.workspace) = {}
              /\ UnreadableMarkers(fs, args.workspace) = {}) =>
                 (pc' = "pack_name" /\ err' = NoError)
          /\ <<fs, args, name, tag, tmpl, tmp, bento, out, calls>>' =
             <<fs, args, name, tag, tmpl, tmp, bento, out, calls>>]_vars

\* The validator has returned on a complete workspace.
C2_Witness ==
    /\ args.cmd = "pack"
    /\ pc = "pack_name"
    /\ MissingMarkers(fs, args.workspace) = {}
    /\ UnreadableMarkers(fs, args.workspace) = {}

(* C4: pack never invokes pack_model on a workspace that fails the marker *)
(* check: every pack_model call is on the workspace of the command, on    *)
(* which the validator found the three markers, and when validation       *)
(* raised there is no pack_model call and nothing is printed.             *)
C4_PackOnlyAfterValidCheck ==
    /\ \A i \in CallsOf("pack_model") :
          /\ calls[i].args[2] = args.workspace
          /\ NotFound(fs, calls[i].args[2]) = {}
          /\ check_comfyui_workspace(fs, calls[i].args[2]) = NoError
    /\ (args.cmd = "pack" /\ NotFound(fs, args.workspace) # {}) =>
          calls = << >> /\ out = << >>
    /\ (args.cmd = "pack" /\ err.type \in {"InvalidArgument", "OSError"}) =>
          calls = << >> /\ out = << >>
    /\ (args.cmd = "pack" /\ out # << >>) =>
          \E i \in CallsOf("pack_model") : calls[i].ok

\* pack_model was invoked, on the non-default workspace.
C4_Witness ==
    /\ CallsOf("pack_model") # {}
    /\ args.workspace # DefaultWorkspace
    /\ pc = "done"

(* C5, as claimed: with --version set to any value the identifier handed  *)
(* to the packer is name:version, and with --version omitted it is name.  *)
C5_AnyVersionSuffixed ==
    \A i \in CallsOf("pack_model") :
        calls[i].args[1] =
            IF args.version.some THEN args.name \o <<Colon>> \o args.version.val
            ELSE args.name

(* C5, amended: with --version set to a non-empty value the identifier    *)
(* handed to the packer is name, a colon, version; with --version omitted *)
(* or empty it is exactly name.                                           *)
C5_NonEmptyVersionSuffixed ==
    \A i \in CallsOf("pack_model") :
        LET id == calls[i].args[1]
            n  == args.name
            v  == args.version.val
        IN IF args.version.some /\ v # << >>
           THEN /\ Len(id) = Len(n) + 1 + Len(v)
                /\ Slice(id, 1, Len(n)) = n
                /\ id[Len(n) + 1] = Colon
                /\ Slice(id, Len(n) + 2, Len(id)) = v
           ELSE id = n

\* The packer was handed an identifier made of a name and a version.
C5_Witness ==
    /\ CallsOf("pack_model") # {}
    /\ args.version = Some(Str(<<"1">>))
    /\ args.name = DefaultPackName

(* C10: after a successful pack the output is a confirmation naming the   *)
(* workspace and the tag the packer returned, followed by the follow-up   *)
(* command hints, whose --model argument is that same tag.                *)
C10_HintsCarryTag ==
    (args.cmd = "pack" /\ pc = "done") =>
        /\ Len(out) = 2
        /\ Contains(out[1], PyRepr(args.workspace))
        /\ Contains(out[1], tag)
        /\ Contains(out[2], Str(<<"-", "-", "m", "o", "d", "e", "l", " ">>) \o tag)

-----------------------------------------------------------------------------
(* Properties of build. *)

InBuild == args.cmd = "build"

BuildReturned == \E j \in CallsOf("build") : calls[j].ok

\* The removal of the temporary directory raised.
CleanupRaised == err.type = "cleanup"

\* The success confirmation of lines 149-151 was printed.
ConfirmationPrinted == \E k \in 1..Len(out) : StartsWith(out[k], BuildMsgHead)

\* The length of what the loop of lines 122-123 writes for the first k
\* packages: a newline and the package, for each.
RECURSIVE LinesLen(_, _)
LinesLen(x, k) ==
    IF k = 0 THEN 0 ELSE LinesLen(x, k - 1) + 1 + Len(x[k])

\* d is base, then for each package in turn a newline and the package.
IsBaseThenExtras(d, base, x) ==
    /\ StartsWith(d, base)
    /\ Len(d) = Len(base) + LinesLen(x, Len(x))
    /\ \A i \in 1..Len(x) :
          /\ d[Len(base) + LinesLen(x, i - 1) + 1] = Newline
          /\ Slice(d, Len(base) + LinesLen(x, i - 1) + 2,
                      Len(base) + LinesLen(x, i)) = x[i]

(* C3, as claimed: in build, the temporary directory exists at the moment *)
(* the external build routine is invoked, and no longer exists once the   *)
(* command has returned or raised, on every exit path: a successful       *)
(* build, a failed build, and a failure of any earlier step.              *)
C3_TempDirScoped ==
    /\ pc = "build_build" => tmp.exists
    /\ \A i \in CallsOf("build") : calls[i].args[3].exists
    /\ (InBuild /\ Finished) => ~tmp.exists

(* C3, amended: in build, the temporary directory exists at the moment    *)
(* the external build routine is invoked.  Once the command has returned  *)
(* or raised it no longer exists, on every exit path, unless its removal  *)
(* raised: then the directory is still there and the command has raised   *)
(* the error of the removal.  A command that returned has removed it.     *)
C3_TempDirScopedUnlessRemovalRaises ==
    /\ pc = "build_build" => tmp.exists
    /\ \A i \in CallsOf("build") : calls[i].args[3].exists
    /\ (InBuild /\ Finished /\ ~CleanupRaised) => ~tmp.exists
    /\ (InBuild /\ Finished /\ CleanupRaised) => (tmp.exists /\ pc = "raised")
    /\ (InBuild /\ pc = "done") => (tmp.created /\ ~tmp.exists)

\* The build was invoked and raised, and the command has raised.
C3_Witness ==
    /\ pc = "raised"
    /\ err.type = "build"
    /\ tmp.created
    /\ ~tmp.exists

(* C6: for every sequence of --extra-python-packages values, the          *)
(* requirements.txt that was generated is the base requirements that      *)
(* get_requirements returned followed by every extra package, each once,  *)
(* in the order supplied.                                                 *)
C6_RequirementsBaseThenExtras ==
    (pc \in {"build_service", "build_workflow", "build_build"}) =>
        /\ tmp.files["requirements.txt"].exists
        /\ \E j \in CallsOf("get_requirements") :
              /\ calls[j].ok
              /\ IsBaseThenExtras(tmp.files["requirements.txt"].data,
                                  calls[j].ret, args.extra_python_packages)

\* requirements.txt was written for two different extra packages.
C6_Witness ==
    /\ pc = "build_build"
    /\ Len(args.extra_python_packages) = MaxExtras
    /\ args.extra_python_packages[1] # args.extra_python_packages[2]

(* C7: for every name and model value, the service.py that was generated  *)
(* is the template with its name placeholder replaced by the name and its *)
(* model-tag placeholder replaced by the model value, so it contains both *)
(* values as they were given.                                             *)
C7_ServiceIsFilledTemplate ==
    (pc \in {"build_workflow", "build_build"}) =>
        /\ tmp.files["service.py"].exists
        /\ tmp.files["service.py"].data =
              TemplatePre \o args.name \o TemplateMid \o args.model \o TemplatePost
        /\ Contains(tmp.files["service.py"].data, args.name)
        /\ Contains(tmp.files["service.py"].data, args.model)

\* service.py was written for a name and a model that hold braces.
C7_Witness ==
    /\ pc = "build_build"
    /\ args.name = BraceName
    /\ args.model = BraceModel

\* What holds of every push, whatever led to it: --push was given, it is
\* the only push, the directory is gone, and it is handed the bento an
\* earlier build returned.
PushIsAfterBuild ==
    /\ Cardinality(CallsOf("push")) <= 1
    /\ \A i \in CallsOf("push") :
          /\ args.push
          /\ tmp.created /\ ~tmp.exists
          /\ \E j \in CallsOf("build") :
                j < i /\ calls[j].ok /\ calls[i].args[1] = calls[j].ret
    /\ (\E j \in CallsOf("build") : ~calls[j].ok) => CallsOf("push") = {}

(* C8, as claimed: in build, the push routine is invoked if and only if   *)
(* --push was given and the external build returned; at most once, after  *)
(* the build and after the temporary directory was removed, with the      *)
(* bento the build returned, and never when the build raised.             *)
C8_PushOnlyAfterBuild ==
    /\ PushIsAfterBuild
    /\ (InBuild /\ Finished) =>
          (CallsOf("push") # {} <=> (args.push /\ BuildReturned))

(* C8, amended: in build, the push routine is invoked if and only if      *)
(* --push was given, the external build returned, the removal of the      *)
(* temporary directory did not raise and the success confirmation was     *)
(* printed without raising; at most once, after the build and after the   *)
(* directory was removed, with the bento the build returned, and never    *)
(* when the build raised.                                                 *)
C8_PushOnlyAfterConfirmation ==
    /\ PushIsAfterBuild
    /\ (InBuild /\ Finished) =>
          (CallsOf("push") # {} <=>
              (args.push /\ BuildReturned /\ ~CleanupRaised /\ ConfirmationPrinted))
    /\ (InBuild /\ Finished /\ BuildReturned /\ ~CleanupRaised /\ ~ConfirmationPrinted) =>
          (pc = "raised" /\ err = Raised("rich.print", << >>))

\* The bento was pushed and the command returned.
C8_Witness ==
    /\ pc = "done"
    /\ \E i \in CallsOf("push") : calls[i].ok

\* What holds of a build command whatever exception leaves it: no routine
\* is invoked twice, a routine that raised is the last one invoked, every
\* exception ends the command at the place its step is at, the success
\* confirmation is printed only if the build returned, and the build is
\* invoked on the three files written in full.
NoStepAfterFailure ==
    /\ \A fn \in {"get_requirements", "build", "push"} :
          Cardinality(CallsOf(fn)) <= 1
    /\ \A i \in 1..Len(calls) : ~calls[i].ok => i = Len(calls)
    /\ (InBuild /\ err # NoError) =>
          /\ pc \in {"build_exit_with", "raised"}
          /\ err.type = "read_text" => out = << >> /\ calls = << >> /\ ~tmp.created
          /\ err.type = "TemporaryDirectory" =>
                out = << >> /\ calls = << >> /\ ~tmp.created
          /\ err.type = "get_requirements" => Len(out) = 1 /\ Len(calls) = 1
          /\ err.type = "OSError" =>
                /\ Len(out) \in {1, 2}
                /\ Len(calls) <= 1
                /\ Len(out) = 2 => Len(calls) = 1
          /\ err.type = "copy2" => Len(out) = 3 /\ Len(calls) = 1
          /\ err.type = "build" => Len(out) = 3 /\ Len(calls) = 2
          /\ err.type = "push" => Len(out) = 4 /\ Len(calls) = 3
          /\ err.type = "cleanup" => Len(out) \in 0..3 /\ CallsOf("push") = {}
          /\ err.type = "rich.print" =>
                /\ <<Len(out), Len(calls)>> \in
                      {<<0, 0>>, <<1, 1>>, <<2, 1>>, <<3, 2>>, <<4, 3>>}
                /\ \A i \in 1..Len(calls) : calls[i].ok
    /\ (InBuild /\ Finished) => (pc = "raised" <=> err # NoError)
    /\ ConfirmationPrinted => BuildReturned
    /\ \A i \in CallsOf("build") :
          LET files == calls[i].args[3].files IN
          /\ \A f \in FileNames : files[f].exists
          /\ files["requirements.txt"].data # << >>
          /\ files["service.py"].data # << >>
          /\ files["workflow.json"].data = WorkflowData

(* C9, as claimed: in build, a failure of any step goes to the caller as  *)
(* it was raised: no later step runs, no routine is invoked twice, the    *)
(* success confirmation is printed only if the build returned, and        *)
(* whenever the build is invoked requirements.txt, service.py and         *)
(* workflow.json have been written into the temporary directory.          *)
C9_FailuresPropagate ==
    /\ NoStepAfterFailure
    /\ \A i \in 1..Len(calls) : ~calls[i].ok => err = Raised(calls[i].fn, << >>)

(* C9, amended: in build, a failure of any step goes to the caller as it  *)
(* was raised, unless the removal of the temporary directory raises on    *)
(* the way out: then the error of the removal is what goes to the caller. *)
(* In every case no later step runs, no routine is invoked twice, the     *)
(* success confirmation is printed only if the build returned, and        *)
(* whenever the build is invoked requirements.txt, service.py and         *)
(* workflow.json have been written into the temporary directory.          *)
C9_FailuresPropagateUnlessRemovalRaises ==
    /\ NoStepAfterFailure
    /\ \A i \in 1..Len(calls) :
          ~calls[i].ok => (err = Raised(calls[i].fn, << >>) \/ CleanupRaised)
    /\ (InBuild /\ CleanupRaised) => (pc = "raised" /\ tmp.created)

\* Copying the workflow raised, and the command has raised.
C9_Witness ==
    /\ pc = "raised"
    /\ err.type = "copy2"
    /\ tmp.created

=============================================================================
